---- MODULE Spec2Model ----
(***************************************************************************)
(* Manifest cross-validation of graph-cli (Subgraph.validateAbis,          *)
(* Subgraph.validateContractAddresses, Subgraph.validateEvents,            *)
(* Subgraph.load), the protocol registry (Protocol) it sits next to, and   *)
(* the docker mode of the test command (runDocker).                        *)
(*                                                                         *)
(* Text that the code inspects character by character or sorts (ABI names, *)
(* addresses, event signatures) is a sequence of one-character strings;    *)
(* text that is only carried around (file names, loader messages, path     *)
(* segments) is a TLA+ string.  A JavaScript value that may be undefined   *)
(* is None or Some(v).  List indices are JavaScript's (from 0); the        *)
(* element with JavaScript index k is element k+1 of the TLA+ sequence.    *)
(***************************************************************************)
EXTENDS Integers, Sequences, FiniteSets, TLC

VARIABLES
    manifest,   \* the parsed manifest (immutable.fromJS(data)), schema-validated
    called,     \* which static method of Subgraph has been called on it
    result,     \* what that call returned or raised
    docker      \* the test command in docker mode: its options, the docker
                \* daemon's matchstick image and the processes runDocker started

vars == <<manifest, called, result, docker>>

----------------------------------------------------------------------------
(* Bounds of the model *)

MaxDataSources == 2
MaxAbis == 2
MaxHandlers == 2

----------------------------------------------------------------------------
(* JavaScript values *)

None == [defined |-> FALSE]
Some(v) == [defined |-> TRUE, value |-> v]

\* `${x}` and String(x): undefined is rendered as the text "undefined"
JsString(x) ==
    IF x.defined THEN x.value ELSE <<"u", "n", "d", "e", "f", "i", "n", "e", "d">>

\* UTF-16 code unit of the characters the model's texts are made of
CharCode(c) ==
    CASE c = "\n" -> 10
      [] c = " " -> 32
      [] c = "(" -> 40
      [] c = ")" -> 41
      [] c = "," -> 44
      [] c = "0" -> 48
      [] c = "1" -> 49
      [] c = "2" -> 50
      [] c = "3" -> 51
      [] c = "4" -> 52
      [] c = "5" -> 53
      [] c = "6" -> 54
      [] c = "7" -> 55
      [] c = "8" -> 56
      [] c = "9" -> 57
      [] c = "A" -> 65
      [] c = "B" -> 66
      [] c = "C" -> 67
      [] c = "D" -> 68
      [] c = "E" -> 69
      [] c = "F" -> 70
      [] c = "G" -> 71
      [] c = "T" -> 84
      [] c = "X" -> 88
      [] c = "Z" -> 90
      [] c = "a" -> 97
      [] c = "b" -> 98
      [] c = "c" -> 99
      [] c = "d" -> 100
      [] c = "e" -> 101
      [] c = "f" -> 102
      [] c = "g" -> 103
      [] c = "i" -> 105
      [] c = "n" -> 110
      [] c = "t" -> 116
      [] c = "u" -> 117
      [] c = "x" -> 120
      [] c = "z" -> 122

\* a < b for JavaScript strings: by code units, a proper prefix first
RECURSIVE StrLess(_, _)
StrLess(a, b) ==
    IF b = <<>> THEN FALSE
    ELSE IF a = <<>> THEN TRUE
    ELSE IF CharCode(Head(a)) < CharCode(Head(b)) THEN TRUE
    ELSE IF CharCode(Head(a)) > CharCode(Head(b)) THEN FALSE
    ELSE StrLess(Tail(a), Tail(b))

\* immutable List.sort() with the default comparator (a > b ? 1 : a < b ? -1 : 0);
\* the sort is stable: an element goes after the elements not greater than it
RECURSIVE InsertSorted(_, _)
InsertSorted(x, s) ==
    IF s = <<>> THEN <<x>>
    ELSE IF StrLess(x, Head(s)) THEN <<x>> \o s
    ELSE <<Head(s)>> \o InsertSorted(x, Tail(s))

RECURSIVE ListSort(_)
ListSort(s) ==
    IF s = <<>> THEN <<>>
    ELSE InsertSorted(s[Len(s)], ListSort(SubSeq(s, 1, Len(s) - 1)))

\* List.includes(x): some element is equal to x (x may be undefined)
ListIncludes(s, x) == x.defined /\ \E i \in 1..Len(s) : s[i] = x.value

\* List.map(f) for a field read, element by element
MapField(s, f) == [i \in 1..Len(s) |-> s[i][f]]

----------------------------------------------------------------------------
(* Protocol: the registry of protocol variants and their capabilities *)

\* Protocol.availableProtocols(): an ordered map from variant to its kind aliases
availableProtocols ==
    << [key |-> "ethereum", names |-> <<"ethereum", "ethereum/contract">>],
       [key |-> "near", names |-> <<"near">>],
       [key |-> "cosmos", names |-> <<"cosmos">>] >>

\* Protocol.normalizeName(name): findKey returns the first key whose list of
\* possible names includes the name, and undefined when there is none
RECURSIVE findKeyFrom(_, _, _)
findKeyFrom(map, name, i) ==
    IF i > Len(map) THEN None
    ELSE IF \E j \in 1..Len(map[i].names) : map[i].names[j] = name
         THEN Some(map[i].key)
         ELSE findKeyFrom(map, name, i + 1)

\* Mutant of normalizeName: the name is looked up among the variants' own
\* names, not among their lists of possible names
normalizeNameAmongKeys(name) ==
    IF \E i \in 1..Len(availableProtocols) : availableProtocols[i].key = name
    THEN Some(name)
    ELSE None

normalizeName(name) == findKeyFrom(availableProtocols, name, 1)

\* new Protocol(kind).hasABIs(): a switch on this.name with no default branch
hasABIs(protocolName) ==
    IF ~protocolName.defined THEN None
    ELSE CASE protocolName.value = "ethereum" -> Some(TRUE)
           [] protocolName.value = "near" -> Some(FALSE)
           [] protocolName.value = "cosmos" -> Some(FALSE)
           [] OTHER -> None

----------------------------------------------------------------------------
(* Collaborators of the cross-validation: the file resolver and the ABI loader *)

ManifestDir == "/subgraph"

\* resolveFile: path.resolve(path.dirname(filename), maybeRelativeFile)
resolveFile(maybeRelativeFile) == ManifestDir \o "/" \o maybeRelativeFile

\* Event signatures of the ABI files of the model
SigTransfer == <<"T", "(", "a", ",", "b", ")">>
SigApproval == <<"A", "(", "a", ")">>
SigDeposit == <<"D", "(", "a", ")">>

\* What is on disk: a file that parses as an ABI with its event signatures,
\* or the message with which parsing it fails
AbiFileContents(file) ==
    CASE file = "/subgraph/abis/Token.json" ->
            [parses |-> TRUE, events |-> <<SigTransfer, SigApproval>>]
      [] file = "/subgraph/abis/Vault.json" ->
            [parses |-> TRUE, events |-> <<SigDeposit>>]
      [] file = "/subgraph/abis/Broken.json" ->
            [parses |-> FALSE, message |-> "Unexpected token } in JSON at position 12"]
      [] OTHER ->
            [parses |-> FALSE, message |-> "ENOENT: no such file or directory"]

\* ABI.load(name, file): the ABI object, or an exception with the parser's message
ABILoad(name, file) ==
    LET contents == AbiFileContents(file)
    IN  IF contents.parses
        THEN [raised |-> FALSE, abi |-> [name |-> name, events |-> contents.events]]
        ELSE [raised |-> TRUE, message |-> contents.message]

\* abi.eventSignatures()
eventSignatures(abi) == abi.events

----------------------------------------------------------------------------
(* Subgraph: the cross-validation of a manifest *)

\* What a call produces: a list of errors, or an exception
Returned(errors) == [raised |-> FALSE, errors |-> errors]
Raised(error) == [raised |-> TRUE, error |-> error]

\* A validation error, immutable.fromJS({path, message}).  origin is the model's
\* record of the position (from 0, in the manifest's dataSources) of the data
\* source the error was raised for; the code's error carries only path and message
ValidationError(path, message, origin) ==
    [path |-> path, message |-> message, origin |-> origin]

\* The predicate of the three filters:
\* dataSource => dataSource.get('kind') === 'ethereum/contract'
IsEthereumContract(dataSource) == dataSource.kind = "ethereum/contract"

\* List.filter re-indexes: the positions (from 1) of the data sources kept, in
\* order; the k-th element of the filtered list is dataSources[positions[k]]
RECURSIVE FilterPositionsFrom(_, _)
FilterPositionsFrom(dataSources, i) ==
    IF i > Len(dataSources) THEN <<>>
    ELSE (IF IsEthereumContract(dataSources[i]) THEN <<i>> ELSE <<>>)
         \o FilterPositionsFrom(dataSources, i + 1)

\* manifest.get('dataSources').filter(...): positions of the data sources kept
FilteredDataSources(m) == FilterPositionsFrom(m.dataSources, 1)

\* The index the reduce callback receives for the k-th data source kept
ReduceIndex(k) == k - 1

\* One step of the first reduce of validateAbis, for the k-th data source kept
AbiReferenceError(m, positions, k) ==
    LET dataSource == m.dataSources[positions[k]]
        dataSourceIndex == ReduceIndex(k)
        abiName == dataSource.source.abi
        abiNames == MapField(dataSource.mapping.abis.value, "name")
    IN  IF ListIncludes(abiNames, abiName)
        THEN <<>>
        ELSE << ValidationError(
                  <<"dataSources", dataSourceIndex, "source", "abi">>,
                  [text |-> "ABI name not found in mapping > abis. Available ABIs:",
                   abiName |-> JsString(abiName),
                   available |-> ListSort(abiNames)],
                  positions[k] - 1) >>

RECURSIVE AbiReferenceErrorsFrom(_, _, _)
AbiReferenceErrorsFrom(m, positions, k) ==
    IF k > Len(positions) THEN <<>>
    ELSE AbiReferenceError(m, positions, k) \o AbiReferenceErrorsFrom(m, positions, k + 1)

\* The inner reduce of the second reduce of validateAbis: the try/catch around
\* ABI.load turns the loader's exception into an error with its message
RECURSIVE AbiFileErrorsOf(_, _, _, _)
AbiFileErrorsOf(abis, dataSourceIndex, origin, j) ==
    IF j > Len(abis) THEN <<>>
    ELSE LET loaded == ABILoad(abis[j].name, resolveFile(abis[j].file))
             abiIndex == j - 1
         IN  (IF loaded.raised
              THEN << ValidationError(
                        <<"dataSources", dataSourceIndex, "mapping", "abis", abiIndex, "file">>,
                        loaded.message,
                        origin) >>
              ELSE <<>>)
             \o AbiFileErrorsOf(abis, dataSourceIndex, origin, j + 1)

RECURSIVE AbiFileErrorsFrom(_, _, _)
AbiFileErrorsFrom(m, positions, k) ==
    IF k > Len(positions) THEN <<>>
    ELSE AbiFileErrorsOf(m.dataSources[positions[k]].mapping.abis.value,
                         ReduceIndex(k), positions[k] - 1, 1)
         \o AbiFileErrorsFrom(m, positions, k + 1)

\* dataSource.getIn(['mapping', 'abis']).map(...) and .reduce(...) on undefined:
\* a TypeError that nothing in validateAbis catches
AbisUndefined(m, positions) ==
    \E k \in 1..Len(positions) : ~m.dataSources[positions[k]].mapping.abis.defined

\* Subgraph.validateAbis(manifest, {resolveFile})
validateAbis(m) ==
    LET positions == FilteredDataSources(m)
    IN  IF AbisUndefined(m, positions)
        THEN Raised("TypeError")
        ELSE Returned(AbiReferenceErrorsFrom(m, positions, 1)
                      \o AbiFileErrorsFrom(m, positions, 1))

\* [0-9a-fA-F]
IsHexChar(c) ==
    \/ CharCode(c) >= CharCode("0") /\ CharCode(c) <= CharCode("9")
    \/ CharCode(c) >= CharCode("a") /\ CharCode(c) <= CharCode("f")
    \/ CharCode(c) >= CharCode("A") /\ CharCode(c) <= CharCode("F")

\* The quantifier {40} of the pattern
HexDigits == 40

\* [0-9a-fA-F]{40} matched against the whole of s
IsHexRun(s) == Len(s) = HexDigits /\ \A i \in 1..Len(s) : IsHexChar(s[i])

\* /^(0x)?[0-9a-fA-F]{40}$/.test(text): anchored at both ends (no m flag, so $
\* is the end of the input only), the group (0x) taken or not
PatternTest(text) ==
    \/ IsHexRun(text)
    \/ /\ Len(text) >= 2
       /\ text[1] = "0"
       /\ text[2] = "x"
       /\ IsHexRun(SubSeq(text, 3, Len(text)))

\* One step of the reduce of validateContractAddresses; RegExp.test converts
\* its argument to a string, an undefined address included
ContractAddressError(m, positions, k) ==
    LET dataSource == m.dataSources[positions[k]]
        dataSourceIndex == ReduceIndex(k)
        path == <<"dataSources", dataSourceIndex, "source", "address">>
        address == dataSource.source.address
    IN  IF PatternTest(JsString(address))
        THEN <<>>
        ELSE << ValidationError(
                  path,
                  [text |-> "Contract address is invalid: Must be 40 hexadecimal characters, with an optional '0x' prefix.",
                   address |-> JsString(address)],
                  positions[k] - 1) >>

RECURSIVE ContractAddressErrorsFrom(_, _, _)
ContractAddressErrorsFrom(m, positions, k) ==
    IF k > Len(positions) THEN <<>>
    ELSE ContractAddressError(m, positions, k)
         \o ContractAddressErrorsFrom(m, positions, k + 1)

\* Subgraph.validateContractAddresses(manifest)
validateContractAddresses(m) ==
    Returned(ContractAddressErrorsFrom(m, FilteredDataSources(m), 1))

\* List.find(abi => abi.get('name') === abiName): the first entry with the name,
\* undefined when there is none (or when abiName is undefined)
RECURSIVE FindAbiEntryFrom(_, _, _)
FindAbiEntryFrom(abis, abiName, j) ==
    IF j > Len(abis) THEN None
    ELSE IF abiName.defined /\ abis[j].name = abiName.value THEN Some(abis[j])
    ELSE FindAbiEntryFrom(abis, abiName, j + 1)

\* The try block of validateEvents up to the ABI: the ABI that source > abi
\* names, or an exception (mapping > abis undefined, no entry with the name,
\* or the loader's own exception)
ReferencedAbi(dataSource) ==
    IF ~dataSource.mapping.abis.defined THEN [raised |-> TRUE, message |-> "TypeError"]
    ELSE LET abiEntry == FindAbiEntryFrom(dataSource.mapping.abis.value,
                                          dataSource.source.abi, 1)
         IN  IF ~abiEntry.defined THEN [raised |-> TRUE, message |-> "TypeError"]
             ELSE ABILoad(abiEntry.value.name, resolveFile(abiEntry.value.file))

\* A signature without its spaces
StripSpaces(signature) == SelectSeq(signature, LAMBDA c : c # " ")

\* Mutant of EventIncluded: signatures compared after their spaces are dropped
EventIncludedIgnoringSpaces(abiEvents, manifestEvent) ==
    \E a \in 1..Len(abiEvents) : StripSpaces(abiEvents[a]) = StripSpaces(manifestEvent)

\* abiEvents.includes(manifestEvent)
EventIncluded(abiEvents, manifestEvent) == ListIncludes(abiEvents, Some(manifestEvent))

\* The inner reduce of validateEvents over the manifest's event signatures
RECURSIVE EventErrorsOf(_, _, _, _, _)
EventErrorsOf(manifestEvents, abi, dataSourceIndex, origin, h) ==
    IF h > Len(manifestEvents) THEN <<>>
    ELSE LET abiEvents == eventSignatures(abi)
             manifestEvent == manifestEvents[h]
             index == h - 1
         IN  (IF EventIncluded(abiEvents, manifestEvent)
              THEN <<>>
              ELSE << ValidationError(
                        <<"dataSources", dataSourceIndex, "eventHandlers", index>>,
                        [text |-> "Event with signature not present in ABI. Available events:",
                         event |-> manifestEvent,
                         abi |-> abi.name,
                         available |-> ListSort(abiEvents)],
                        origin) >>)
             \o EventErrorsOf(manifestEvents, abi, dataSourceIndex, origin, h + 1)

\* One step of the outer reduce of validateEvents: everything is inside the try,
\* and the catch returns the errors collected so far
EventErrors(m, positions, k) ==
    LET dataSource == m.dataSources[positions[k]]
        dataSourceIndex == ReduceIndex(k)
        loaded == ReferencedAbi(dataSource)
    IN  IF loaded.raised THEN <<>>
        ELSE IF ~dataSource.mapping.eventHandlers.defined THEN <<>>
        ELSE EventErrorsOf(MapField(dataSource.mapping.eventHandlers.value, "event"),
                           loaded.abi, dataSourceIndex, positions[k] - 1, 1)

RECURSIVE EventErrorsFrom(_, _, _)
EventErrorsFrom(m, positions, k) ==
    IF k > Len(positions) THEN <<>>
    ELSE EventErrors(m, positions, k) \o EventErrorsFrom(m, positions, k + 1)

\* Subgraph.validateEvents(manifest, {resolveFile})
validateEvents(m) == Returned(EventErrorsFrom(m, FilteredDataSources(m), 1))

\* Mutant of load: the address and event checks run only when validateAbis
\* found nothing
loadStoppingAtFirstCheck(m) ==
    LET abis == validateAbis(m)
    IN  IF abis.raised THEN Raised(abis.error)
        ELSE LET errors == IF Len(abis.errors) > 0
                           THEN abis.errors
                           ELSE validateContractAddresses(m).errors
                                \o validateEvents(m).errors
             IN  IF Len(errors) > 0
                 THEN [raised |-> TRUE, error |-> "Error", errors |-> errors]
                 ELSE [raised |-> FALSE, manifest |-> m]

\* Subgraph.load(filename) from the point where the manifest has passed
\* Subgraph.validate and Subgraph.validateSchema: the three checks in the order
\* of the arguments of List.of, then throwCombinedError or the manifest
load(m) ==
    LET abis == validateAbis(m)
    IN  IF abis.raised THEN Raised(abis.error)
        ELSE LET errors == abis.errors
                           \o validateContractAddresses(m).errors
                           \o validateEvents(m).errors
             IN  IF Len(errors) > 0
                 THEN [raised |-> TRUE, error |-> "Error", errors |-> errors]
                 ELSE [raised |-> FALSE, manifest |-> m]

----------------------------------------------------------------------------
(* The manifests of the model *)

\* ABI names, as declared in mapping > abis and referenced by source > abi
NameA == <<"A">>
NameB == <<"B">>
NameAB == <<"A", "B">>
NameLowerA == <<"a">>
NameZ == <<"Z">>

\* Entries of mapping > abis
AbiEntry(name, file) == [name |-> name, file |-> file]
TokenAbi == AbiEntry(NameA, "abis/Token.json")
VaultAbi == AbiEntry(NameB, "abis/Vault.json")
BrokenAbi == AbiEntry(NameB, "abis/Broken.json")

\* Entries of mapping > eventHandlers
EventHandler(event) == [event |-> event, handler |-> "handleEvent"]
SigTransferLower == <<"t", "(", "a", ",", "b", ")">>
SigTransferSpaced == <<"T", "(", "a", ",", " ", "b", ")">>

\* The event handlers for a list of signatures
MapEvents(signatures) == [h \in 1..Len(signatures) |-> EventHandler(signatures[h])]

\* Addresses
Digits == <<"1", "2", "3", "4", "5", "6", "7", "8", "9", "0">>
Addr40 == Digits \o Digits \o Digits \o Digits
AddrMixedCase ==
    <<"a", "B", "c", "D", "e", "F", "A", "b", "C", "d">> \o Digits \o Digits \o Digits
Addr39 == Tail(Addr40)
Addr41 == <<"f">> \o Addr40
AddrNonHex == <<"g">> \o Tail(Addr40)
AddrUpperPrefix == <<"0", "X">> \o Addr40
AddrSamples ==
    { Addr40, <<"0", "x">> \o Addr40, AddrMixedCase, <<"0", "x">> \o AddrMixedCase,
      Addr39, Addr41, AddrNonHex, <<"0", "x">> \o Addr39, <<"0", "x">> \o Addr41,
      AddrUpperPrefix, <<" ">> \o Addr40, Addr40 \o <<"\n">>, <<"x">> \o Addr40,
      <<"0", "x">> \o AddrNonHex, <<>> }

\* A data source as the cross-validation reads it
DataSource(kind, abi, address, abis, eventHandlers) ==
    [kind |-> kind,
     source |-> [abi |-> abi, address |-> address],
     mapping |-> [abis |-> abis, eventHandlers |-> eventHandlers]]

DataSources(Kinds, AbiRefs, Addresses, AbiLists, HandlerLists) ==
    { DataSource(kind, abi, address, abis, eventHandlers) :
        kind \in Kinds, abi \in AbiRefs, address \in Addresses,
        abis \in AbiLists, eventHandlers \in HandlerLists }

\* All lists of at most n elements of S
ListsUpTo(S, n) == UNION { [1..k -> S] : k \in 0..n }

Optional(S) == {None} \cup { Some(v) : v \in S }

\* Kinds: the aliases of the registry and one kind that is no alias
Kinds == {"ethereum/contract", "ethereum", "near", "cosmos", "substreams"}

\* Data sources that vary every field the checks read
PlainDataSources ==
    DataSources(Kinds,
                {None, Some(NameA), Some(NameZ)},
                {None, Some(Addr40), Some(Addr39)},
                {None, Some(<<TokenAbi>>), Some(<<BrokenAbi, TokenAbi>>)},
                {None, Some(<<EventHandler(SigTransfer)>>),
                       Some(<<EventHandler(SigDeposit)>>)})

\* Data sources that stand around the one a check is studied on: one that the
\* filters drop, one with an error of every check, one without mapping > abis
NearSource ==
    DataSource("near", Some(NameA), None, None, None)
FaultySource ==
    DataSource("ethereum/contract", Some(NameZ), Some(Addr39),
               Some(<<TokenAbi, BrokenAbi>>), Some(<<EventHandler(SigDeposit)>>))
FaultyEventSource ==
    DataSource("ethereum/contract", Some(NameA), Some(Addr40),
               Some(<<TokenAbi>>), Some(<<EventHandler(SigDeposit)>>))
BareSource ==
    DataSource("ethereum/contract", None, None, None, None)

\* The list c with x inserted after its first p elements
InsertAt(c, p, x) == SubSeq(c, 1, p) \o <<x>> \o SubSeq(c, p + 1, Len(c))

\* Manifests of at most MaxDataSources data sources: lists over Around, and
\* lists over Around with one data source of Studied anywhere in them
ManifestsOf(Studied, Around) ==
    { [dataSources |-> d] : d \in
        ListsUpTo(Around, MaxDataSources)
        \cup UNION { { InsertAt(c, p, x) : p \in 0..Len(c), x \in Studied } :
                     c \in ListsUpTo(Around, MaxDataSources - 1) } }

NotCalled == [raised |-> FALSE]

\* The test command has not been run
DockerIdle == [pc |-> "idle"]

InitOn(Manifests) ==
    /\ manifest \in Manifests
    /\ called = "none"
    /\ result = NotCalled
    /\ docker = DockerIdle

----------------------------------------------------------------------------
(* The calls *)

CallValidateAbis ==
    /\ called = "none"
    /\ called' = "validateAbis"
    /\ result' = validateAbis(manifest)
    /\ UNCHANGED <<manifest, docker>>

CallValidateContractAddresses ==
    /\ called = "none"
    /\ called' = "validateContractAddresses"
    /\ result' = validateContractAddresses(manifest)
    /\ UNCHANGED <<manifest, docker>>

CallValidateEvents ==
    /\ called = "none"
    /\ called' = "validateEvents"
    /\ result' = validateEvents(manifest)
    /\ UNCHANGED <<manifest, docker>>

CallLoad ==
    /\ called = "none"
    /\ called' = "load"
    /\ result' = load(manifest)
    /\ UNCHANGED <<manifest, docker>>

Next ==
    \/ CallValidateAbis
    \/ CallValidateContractAddresses
    \/ CallValidateEvents
    \/ CallLoad

\* Manifests over data sources that vary every field
Init == InitOn({ [dataSources |-> d] : d \in ListsUpTo(PlainDataSources, MaxDataSources) })

Spec == Init /\ [][Next]_vars

\* Manifests for the order of the combined errors: every data source is kept
\* or dropped by the filters and has or lacks an error of each check
OrderDataSources ==
    DataSources({"ethereum/contract", "near"},
                {Some(NameA), Some(NameZ)},
                {Some(Addr40), Some(Addr39)},
                {None, Some(<<TokenAbi>>), Some(<<TokenAbi, BrokenAbi>>)},
                {Some(<<EventHandler(SigTransfer)>>), Some(<<EventHandler(SigDeposit)>>)})

InitOrder ==
    InitOn({ [dataSources |-> d] : d \in ListsUpTo(OrderDataSources, MaxDataSources) })

SpecOrder == InitOrder /\ [][Next]_vars

\* Manifests for the address check: one data source with any of the sample
\* addresses, or none, among the data sources that stand around
AddressDataSources ==
    DataSources({"ethereum/contract"}, {Some(NameA)}, Optional(AddrSamples),
                {Some(<<TokenAbi>>)}, {None})

InitAddress ==
    InitOn(ManifestsOf(AddressDataSources, {NearSource, FaultySource, BareSource}))

SpecAddress == InitAddress /\ [][Next]_vars

\* Manifests for the ABI checks: one data source with any list of at most
\* MaxAbis declared ABIs and any reference to them
AbiEntries ==
    { AbiEntry(name, file) : name \in {NameA, NameB, NameAB},
                             file \in {"abis/Token.json", "abis/Broken.json"} }

AbiDataSources ==
    DataSources({"ethereum/contract"},
                Optional({NameA, NameB, NameZ}),
                {Some(Addr40)},
                Optional(ListsUpTo(AbiEntries, MaxAbis)),
                {None, Some(<<EventHandler(SigDeposit)>>)})

InitAbis ==
    InitOn(ManifestsOf(AbiDataSources, {NearSource, FaultySource, BareSource}))

SpecAbis == InitAbis /\ [][Next]_vars

\* Manifests for the event check: one data source with any list of at most
\* MaxHandlers event handlers, whose referenced ABI loads or does not
EventDataSources ==
    { DataSource("ethereum/contract", Some(ref[1]), Some(Addr40), Some(ref[2]), handlers) :
        ref \in { <<NameA, <<TokenAbi>> >>, <<NameB, <<TokenAbi, VaultAbi>> >>,
                  <<NameB, <<TokenAbi, BrokenAbi>> >>, <<NameZ, <<TokenAbi>> >> },
        handlers \in Optional(
            { MapEvents(l) : l \in ListsUpTo({SigTransfer, SigTransferLower,
                                               SigTransferSpaced, SigDeposit},
                                              MaxHandlers) }) }

InitEvents ==
    InitOn(ManifestsOf(EventDataSources, {NearSource, FaultyEventSource, BareSource}))

SpecEvents == InitEvents /\ [][Next]_vars

----------------------------------------------------------------------------
(* What the properties below speak of *)

Sources == manifest.dataSources

\* The errors a call returned (none when it raised)
ReturnedErrors == IF called = "none" \/ result.raised THEN <<>> ELSE result.errors

\* A call of one of the three checks has been made
CheckCalled ==
    called \in {"validateAbis", "validateContractAddresses", "validateEvents"}

\* The check an error comes from, read off its path
CheckOf(e) ==
    IF e.path[3] = "eventHandlers" THEN "event"
    ELSE IF e.path[3] = "mapping" THEN "abiFile"
    ELSE IF e.path[4] = "abi" THEN "abiReference"
    ELSE "address"

\* The errors of a list that a check raised for the data source at position i
\* (from 1) of the manifest
ErrorsFor(errors, check, i) ==
    { n \in 1..Len(errors) : CheckOf(errors[n]) = check /\ errors[n].origin = i - 1 }

\* The names a data source declares in mapping > abis
DeclaredNames(dataSource) == MapField(dataSource.mapping.abis.value, "name")

\* The kind resolves, through the registry, to a variant with hasABIs true
KindHasABIs(dataSource) == hasABIs(normalizeName(dataSource.kind)) = Some(TRUE)

\* C1: validateAbis checks exactly the data sources whose kind resolves,
\* through the registry's alias lookup, to a variant with hasABIs true: such a
\* data source with a source > abi that it does not declare gets an
\* ABI-reference error, one with an ABI file that does not load gets an ABI-file
\* error, and no error is raised for any other data source.
C1_AbiChecksFollowRegistry ==
    (called = "validateAbis" /\ ~result.raised) =>
        /\ \A i \in 1..Len(Sources) :
             (KindHasABIs(Sources[i]) /\ Sources[i].mapping.abis.defined) =>
                /\ ~ListIncludes(DeclaredNames(Sources[i]), Sources[i].source.abi)
                      => ErrorsFor(result.errors, "abiReference", i) # {}
                /\ (\E j \in 1..Len(Sources[i].mapping.abis.value) :
                       ABILoad(Sources[i].mapping.abis.value[j].name,
                               resolveFile(Sources[i].mapping.abis.value[j].file)).raised)
                      => ErrorsFor(result.errors, "abiFile", i) # {}
        /\ \A n \in 1..Len(result.errors) :
             KindHasABIs(Sources[result.errors[n].origin + 1])

\* C2: in every error a check returns, the data-source index of the path is
\* the position of the offending data source in the manifest's dataSources.
C2_PathIndexIsPosition ==
    CheckCalled =>
        \A n \in 1..Len(ReturnedErrors) :
            ReturnedErrors[n].path[2] = ReturnedErrors[n].origin

\* Rank of a check in the order ABI reference, ABI file, address, event
CheckRank(check) ==
    CASE check = "abiReference" -> 1
      [] check = "abiFile" -> 2
      [] check = "address" -> 3
      [] check = "event" -> 4

\* load built the combined list of errors (and threw it as one Error)
CombinedBuilt == called = "load" /\ result.raised /\ result.error = "Error"

\* The errors of a list that come from one of the given checks, in order
ErrorsOfChecks(errors, checks) ==
    SelectSeq(errors, LAMBDA e : CheckOf(e) \in checks)

\* Every check contributes to load's outcome what it finds by itself
EveryCheckContributes(combined) ==
    /\ ErrorsOfChecks(combined, {"abiReference", "abiFile"}) = validateAbis(manifest).errors
    /\ ErrorsOfChecks(combined, {"address"}) = validateContractAddresses(manifest).errors
    /\ ErrorsOfChecks(combined, {"event"}) = validateEvents(manifest).errors

C4_ChecksNeverRaise == CheckCalled => ~result.raised

\* C5: the address check reports a data source only when its source > address
\* is present (and malformed): no error for a data source without an address.
C5_NoErrorWithoutAddress ==
    called = "validateContractAddresses" =>
        \A n \in 1..Len(ReturnedErrors) :
            Sources[ReturnedErrors[n].origin + 1].source.address.defined

\* A list of names is in lexicographic order
InOrder(names) ==
    \A a, b \in 1..Len(names) : a < b => ~StrLess(names[b], names[a])

\* Two lists hold the same names the same number of times
SameNames(l, r) ==
    /\ Len(l) = Len(r)
    /\ \A x \in { l[a] : a \in 1..Len(l) } \cup { r[a] : a \in 1..Len(r) } :
          Cardinality({ a \in 1..Len(l) : l[a] = x })
            = Cardinality({ a \in 1..Len(r) : r[a] = x })

\* C6: for every data source the check keeps whose source > abi is not among
\* the names of its mapping > abis, validateAbis returns exactly one
\* ABI-reference error for it, at dataSources/<its index>/source/abi, whose
\* message lists all declared names in lexicographic order; for one whose
\* source > abi is declared it returns no ABI-reference error.
C6_OneReferenceErrorPerBadReference ==
    called = "validateAbis" =>
        \A i \in 1..Len(Sources) :
            (IsEthereumContract(Sources[i]) /\ Sources[i].mapping.abis.defined) =>
                IF ListIncludes(DeclaredNames(Sources[i]), Sources[i].source.abi)
                THEN ErrorsFor(ReturnedErrors, "abiReference", i) = {}
                ELSE /\ ~result.raised
                     /\ Cardinality(ErrorsFor(result.errors, "abiReference", i)) = 1
                     /\ \A n \in ErrorsFor(result.errors, "abiReference", i) :
                          /\ result.errors[n].path = <<"dataSources", i - 1, "source", "abi">>
                          /\ InOrder(result.errors[n].message.available)
                          /\ SameNames(result.errors[n].message.available,
                                       DeclaredNames(Sources[i]))

\* The ABI that source > abi refers to cannot be loaded: no declared ABI has
\* the name, or the file of the first one that has it does not parse
ReferencedAbiFails(dataSource) ==
    \/ ~ListIncludes(DeclaredNames(dataSource), dataSource.source.abi)
    \/ \E j \in 1..Len(dataSource.mapping.abis.value) :
          /\ dataSource.mapping.abis.value[j].name = dataSource.source.abi.value
          /\ \A h \in 1..(j - 1) :
                dataSource.mapping.abis.value[h].name # dataSource.source.abi.value
          /\ ~AbiFileContents(resolveFile(dataSource.mapping.abis.value[j].file)).parses

\* C7: a failure to load an ABI is reported once.  Each declared ABI of a data
\* source the check keeps whose file does not parse yields exactly one ABI-file
\* error, with the loader's message, and validateAbis raises nothing;
\* validateEvents returns no error for a data source whose referenced ABI
\* cannot be loaded; and load, on a manifest of one ethereum/contract data
\* source with a valid address whose source > abi names no declared ABI (the
\* declared ones load), throws exactly one error, at dataSources/0/source/abi.
C7_LoadFailureReportedOnce ==
    /\ called = "validateAbis" =>
         \A i \in 1..Len(Sources) :
            (IsEthereumContract(Sources[i]) /\ Sources[i].mapping.abis.defined) =>
                \A j \in 1..Len(Sources[i].mapping.abis.value) :
                    LET file == resolveFile(Sources[i].mapping.abis.value[j].file)
                    IN  ~AbiFileContents(file).parses =>
                          /\ ~result.raised
                          /\ \E n \in ErrorsFor(result.errors, "abiFile", i) :
                                /\ result.errors[n].path[5] = j - 1
                                /\ result.errors[n].message = AbiFileContents(file).message
                                /\ \A o \in ErrorsFor(result.errors, "abiFile", i) :
                                      result.errors[o].path[5] = j - 1 => o = n
    /\ called = "validateEvents" =>
         /\ ~result.raised
         /\ \A i \in 1..Len(Sources) :
               (/\ IsEthereumContract(Sources[i])
                /\ Sources[i].mapping.abis.defined
                /\ ReferencedAbiFails(Sources[i]))
                  => ErrorsFor(result.errors, "event", i) = {}
    /\ (/\ called = "load"
        /\ Len(Sources) = 1
        /\ Sources[1].kind = "ethereum/contract"
        /\ Sources[1].source.address.defined
        /\ PatternTest(Sources[1].source.address.value)
        /\ Sources[1].mapping.abis.defined
        /\ Sources[1].source.abi.defined
        /\ ~ListIncludes(DeclaredNames(Sources[1]), Sources[1].source.abi)
        /\ \A j \in 1..Len(Sources[1].mapping.abis.value) :
              AbiFileContents(resolveFile(Sources[1].mapping.abis.value[j].file)).parses)
         => /\ CombinedBuilt
            /\ Len(result.errors) = 1
            /\ result.errors[1].path = <<"dataSources", 0, "source", "abi">>

\* C8: a manifest with a data source whose kind is no alias of any variant is
\* stopped by load with a single error at that data source's kind
\* (dataSources/<index>/kind), and is never returned as valid.
C8_UnknownKindStopsLoad ==
    called = "load" =>
        \A i \in 1..Len(Sources) :
            ~normalizeName(Sources[i].kind).defined =>
                /\ result.raised
                /\ result.error = "Error"
                /\ Len(result.errors) = 1
                /\ Len(result.errors[1].path) = 3
                /\ result.errors[1].path[2] = i - 1
                /\ result.errors[1].path[3] = "kind"

\* An address as the claim describes a good one: 40 characters, each a digit
\* or one of a to f in either case, after an optional "0x"
HexAlphabet ==
    {"0", "1", "2", "3", "4", "5", "6", "7", "8", "9",
     "a", "b", "c", "d", "e", "f", "A", "B", "C", "D", "E", "F"}

WellFormedAddress(text) ==
    \E body \in {text} \cup (IF Len(text) >= 2 /\ SubSeq(text, 1, 2) = <<"0", "x">>
                             THEN {SubSeq(text, 3, Len(text))} ELSE {}) :
        Len(body) = 40 /\ \A a \in 1..Len(body) : body[a] \in HexAlphabet

\* C9: for a data source the check keeps that has an address,
\* validateContractAddresses returns no error iff the address is 40 hexadecimal
\* characters (either case) after an optional "0x", and otherwise exactly one
\* error, at dataSources/<its index>/source/address.
C9_AddressErrorIffMalformed ==
    called = "validateContractAddresses" =>
        \A i \in 1..Len(Sources) :
            (IsEthereumContract(Sources[i]) /\ Sources[i].source.address.defined) =>
                IF WellFormedAddress(Sources[i].source.address.value)
                THEN ErrorsFor(result.errors, "address", i) = {}
                ELSE /\ Cardinality(ErrorsFor(result.errors, "address", i)) = 1
                     /\ \A n \in ErrorsFor(result.errors, "address", i) :
                          result.errors[n].path
                            = <<"dataSources", i - 1, "source", "address">>

\* The referenced ABI of a data source loads: the event signatures in it
LoadedSignatures(dataSource) ==
    LET entry == CHOOSE j \in 1..Len(dataSource.mapping.abis.value) :
                    /\ dataSource.mapping.abis.value[j].name = dataSource.source.abi.value
                    /\ \A h \in 1..(j - 1) :
                          dataSource.mapping.abis.value[h].name
                            # dataSource.source.abi.value
        contents == AbiFileContents(resolveFile(dataSource.mapping.abis.value[entry].file))
    IN  { contents.events[a] : a \in 1..Len(contents.events) }

----------------------------------------------------------------------------
(* Protocol: instances and the template code generator *)

\* null, which like undefined is no value
JsNull == [defined |-> FALSE, null |-> TRUE]

\* `${this.name}` for a name that is a string or undefined
NameText(protocolName) == IF protocolName.defined THEN protocolName.value ELSE "undefined"

\* new Protocol(name): this.name = this.normalizeName(name)
NewProtocol(name) == [name |-> normalizeName(name)]

\* Protocol.fromDataSources(dataSourcesAndTemplates): the kind of the first
\* element; reading .kind of the undefined first element of an empty list
\* is a TypeError
fromDataSources(dataSourcesAndTemplates) ==
    IF Len(dataSourcesAndTemplates) = 0
    THEN Raised("TypeError")
    ELSE [raised |-> FALSE, protocol |-> NewProtocol(dataSourcesAndTemplates[1].kind)]

\* protocol.hasTemplates(): a switch on this.name with no default branch
hasTemplates(protocolName) ==
    IF ~protocolName.defined THEN None
    ELSE CASE protocolName.value = "ethereum" -> Some(TRUE)
           [] protocolName.value = "near" -> Some(FALSE)
           [] protocolName.value = "cosmos" -> Some(FALSE)
           [] OTHER -> None

\* !x for a value that is true, false or undefined
Not(x) == ~(x.defined /\ x.value)

\* Mutant of getTemplateCodeGen: written like getTypeGenerator, a switch that
\* returns null for the variants without the capability and has no default
getTemplateCodeGenLikeTypeGenerator(protocolName, template) ==
    IF ~protocolName.defined THEN [raised |-> FALSE, value |-> None]
    ELSE CASE protocolName.value = "ethereum" ->
                [raised |-> FALSE,
                 value |-> Some([class |-> "EthereumTemplateCodeGen", template |-> template])]
           [] protocolName.value = "near" -> [raised |-> FALSE, value |-> JsNull]
           [] protocolName.value = "cosmos" -> [raised |-> FALSE, value |-> JsNull]
           [] OTHER -> [raised |-> FALSE, value |-> None]

\* protocol.getTemplateCodeGen(template)
getTemplateCodeGen(protocolName, template) ==
    IF Not(hasTemplates(protocolName))
    THEN Raised("Template data sources with kind '" \o NameText(protocolName)
                \o "' are not supported yet")
    ELSE CASE protocolName.value = "ethereum" ->
                [raised |-> FALSE,
                 value |-> Some([class |-> "EthereumTemplateCodeGen", template |-> template])]
           [] OTHER ->
                Raised("Template data sources with kind '" \o NameText(protocolName)
                       \o "' is unknown")

\* Kinds given to the registry: its aliases and strings that are none of them
ProtocolKinds ==
    Kinds \cup {"", "Ethereum", "ethereum/", "contract", "near/contract",
                "cosmos/contract", "ethereum/contract "}

\* Templates a code generator is asked for
Templates == {"Pool", "Vault"}

InitProtocol ==
    InitOn({ [dataSources |-> d] : d \in
               ListsUpTo({ DataSource(kind, None, None, None, None) : kind \in ProtocolKinds },
                         MaxDataSources) })

CallFromDataSources ==
    /\ called = "none"
    /\ called' = "fromDataSources"
    /\ result' = fromDataSources(manifest.dataSources)
    /\ UNCHANGED <<manifest, docker>>

\* A method of the instance that fromDataSources returned
CallHasTemplates ==
    /\ called = "fromDataSources"
    /\ ~result.raised
    /\ called' = "hasTemplates"
    /\ result' = [raised |-> FALSE, protocol |-> result.protocol,
                  value |-> hasTemplates(result.protocol.name)]
    /\ UNCHANGED <<manifest, docker>>

CallGetTemplateCodeGen ==
    /\ called = "fromDataSources"
    /\ ~result.raised
    /\ \E template \in Templates :
          result' = [protocol |-> result.protocol]
                    @@ getTemplateCodeGen(result.protocol.name, template)
    /\ called' = "getTemplateCodeGen"
    /\ UNCHANGED <<manifest, docker>>

NextProtocol ==
    \/ CallFromDataSources
    \/ CallHasTemplates
    \/ CallGetTemplateCodeGen

SpecProtocol == InitProtocol /\ [][NextProtocol]_vars

\* The variants of the registry that declare a kind among their aliases
VariantsDeclaring(kind) ==
    { i \in 1..Len(availableProtocols) :
        \E j \in 1..Len(availableProtocols[i].names) :
            availableProtocols[i].names[j] = kind }

\* C11: the name of a Protocol built from a kind is, for every alias declared
\* in availableProtocols, the one variant that declares it, and undefined for
\* every string that no variant declares; no alias is declared by two variants.
C11_NormalizeNameIsReverseLookup ==
    (called = "fromDataSources" /\ ~result.raised) =>
        LET declaring == VariantsDeclaring(Sources[1].kind)
        IN  IF declaring = {}
            THEN result.protocol.name = None
            ELSE /\ Cardinality(declaring) = 1
                 /\ \A i \in declaring :
                       result.protocol.name = Some(availableProtocols[i].key)

\* C11 witness: a Protocol has been built from the alias ethereum/contract,
\* which is not the name of its variant, and is named ethereum.
C11_Witness ==
    /\ called = "fromDataSources"
    /\ ~result.raised
    /\ Sources[1].kind = "ethereum/contract"
    /\ result.protocol.name = Some("ethereum")

\* C12: getTemplateCodeGen raises an error, and returns neither null nor
\* undefined, for every Protocol whose hasTemplates is not true (near, cosmos,
\* and one built from an unrecognised kind); for a variant whose hasTemplates
\* is true it returns a code generator.
C12_TemplateCodeGenFailsLoudly ==
    called = "getTemplateCodeGen" =>
        /\ result.protocol.name \in {Some("near"), Some("cosmos"), None} => result.raised
        /\ hasTemplates(result.protocol.name) # Some(TRUE) => result.raised
        /\ hasTemplates(result.protocol.name) = Some(TRUE) =>
              /\ ~result.raised
              /\ result.value.defined
              /\ result.value.value.class = "EthereumTemplateCodeGen"
        /\ ~result.raised => result.value.defined

\* C12 witness: getTemplateCodeGen has raised for a Protocol built from a kind
\* that no variant declares.
C12_Witness ==
    /\ called = "getTemplateCodeGen"
    /\ result.protocol.name = None
    /\ ~normalizeName(Sources[1].kind).defined
    /\ result.raised

----------------------------------------------------------------------------
(* graph test --docker: runDocker, the docker daemon and the processes it runs *)

\* String.prototype.trim on a text made of the model's characters
RECURSIVE TrimStart(_)
TrimStart(text) ==
    IF Len(text) > 0 /\ text[1] = " " THEN TrimStart(Tail(text)) ELSE text

RECURSIVE TrimEnd(_)
TrimEnd(text) ==
    IF Len(text) > 0 /\ text[Len(text)] = " "
    THEN TrimEnd(SubSeq(text, 1, Len(text) - 1))
    ELSE text

Trim(text) == TrimEnd(TrimStart(text))

\* The flags and options passed on to the matchstick binary
TestArgs(opts) ==
    (IF opts.coverageOpt THEN <<" ", "-", "c">> ELSE <<>>)
    \o (IF opts.recompileOpt THEN <<" ", "-", "r">> ELSE <<>>)
    \o (IF opts.datasource.defined THEN <<" ">> \o opts.datasource.value ELSE <<>>)

\* The `docker run` options: the ARGS variable (-e) when there are test
\* arguments, and the image to run
DockerRunOpts(opts) ==
    [env |-> IF TestArgs(opts) # <<>> THEN Some(Trim(TestArgs(opts))) ELSE None,
     image |-> "matchstick"]

\* A value that counts as true in a condition
Truthy(x) == x.defined

\* The build is required: no Dockerfile was found, no image, --version or --force
RebuildRequired(opts, stdout) ==
    ~opts.dockerfileExists \/ stdout = "" \/ Truthy(opts.versionOpt) \/ opts.forceOpt

\* The Dockerfile is generated: none was found, --version or --force
DockerfileRequired(opts) ==
    ~opts.dockerfileExists \/ Truthy(opts.versionOpt) \/ opts.forceOpt

\* The options of a run of `graph test -d`
DockerOpts ==
    [dockerfileExists : BOOLEAN,
     versionOpt : Optional({"0.5.0"}),
     forceOpt : BOOLEAN,
     coverageOpt : BOOLEAN,
     recompileOpt : BOOLEAN,
     datasource : Optional({<<"G">>})]

\* runDocker has been called: nothing started yet, the tag matchstick names no
\* image or the one an earlier run built
DockerCalled(opts, image) ==
    [pc |-> "runDocker", opts |-> opts, image |-> image,
     rm |-> "no", rmPrinted |-> FALSE,
     build |-> "no", code |-> None,
     run |-> "no", runOpts |-> None, container |-> None]

InitDocker ==
    /\ manifest = [dataSources |-> <<>>]
    /\ called = "none"
    /\ result = NotCalled
    /\ docker \in { DockerCalled(opts, image) :
                      opts \in DockerOpts, image \in {"none", "old"} }

\* runDocker up to the call of `docker images`: the Dockerfile is generated
\* when required, and the process exits when that fails
RunDockerStart ==
    /\ docker.pc = "runDocker"
    /\ \E generated \in BOOLEAN :
          docker' = [docker EXCEPT !.pc =
                        IF DockerfileRequired(docker.opts) /\ ~generated
                        THEN "exit"
                        ELSE "images"]
    /\ UNCHANGED <<manifest, called, result>>

\* The callback of `docker images -q matchstick`
ImagesCallback ==
    /\ docker.pc = "images"
    /\ LET stdout == IF docker.image = "none" THEN "" ELSE "id of " \o docker.image
           dockerRunOpts == DockerRunOpts(docker.opts)
       IN  docker' =
             IF RebuildRequired(docker.opts, stdout)
             THEN [docker EXCEPT !.pc = "callbacks",
                                 !.rm = IF stdout # "" THEN "started" ELSE "no",
                                 !.build = "started",
                                 !.runOpts = Some(dockerRunOpts)]
             ELSE [docker EXCEPT !.pc = "callbacks",
                                 !.run = "spawned",
                                 !.runOpts = Some(dockerRunOpts)]
    /\ UNCHANGED <<manifest, called, result>>

\* The daemon serves `docker image rm matchstick`: the image the tag names now
\* is removed, unless there is none or a container runs from it
RemoveImage ==
    /\ docker.rm = "started"
    /\ docker' =
         IF docker.image = "none"
            \/ (docker.run = "running" /\ docker.container = Some(docker.image))
         THEN [docker EXCEPT !.rm = "failed"]
         ELSE [docker EXCEPT !.rm = "removed", !.image = "none"]
    /\ UNCHANGED <<manifest, called, result>>

\* The callback of `docker image rm matchstick`
RemoveCallback ==
    /\ docker.rm \in {"removed", "failed"}
    /\ ~docker.rmPrinted
    /\ docker' = [docker EXCEPT !.rmPrinted = TRUE]
    /\ UNCHANGED <<manifest, called, result>>

\* `docker build -t matchstick` ends: with code 0 the tag names the new image
BuildExit ==
    /\ docker.build = "started"
    /\ \E code \in {0, 1} :
          docker' = [docker EXCEPT !.build = "exited",
                                   !.code = Some(code),
                                   !.image = IF code = 0 THEN "new" ELSE @]
    /\ UNCHANGED <<manifest, called, result>>

\* The close handler of the build
BuildClose ==
    /\ docker.build = "exited"
    /\ docker' = [docker EXCEPT !.build = "closed",
                                !.run = IF docker.code = Some(0) THEN "spawned" ELSE @]
    /\ UNCHANGED <<manifest, called, result>>

\* The daemon serves `docker run ... matchstick`: a container starts from the
\* image the tag names now, and none starts when the tag names no image
ContainerStart ==
    /\ docker.run = "spawned"
    /\ docker' =
         IF docker.image = "none"
         THEN [docker EXCEPT !.run = "failed"]
         ELSE [docker EXCEPT !.run = "running", !.container = Some(docker.image)]
    /\ UNCHANGED <<manifest, called, result>>

\* The tests end and the container is removed (--rm)
ContainerExit ==
    /\ docker.run = "running"
    /\ docker' = [docker EXCEPT !.run = "exited"]
    /\ UNCHANGED <<manifest, called, result>>

NextDocker ==
    \/ RunDockerStart
    \/ ImagesCallback
    \/ RemoveImage
    \/ RemoveCallback
    \/ BuildExit
    \/ BuildClose
    \/ ContainerStart
    \/ ContainerExit

SpecDocker == InitDocker /\ [][NextDocker]_vars

\* The removal of the image found before the build has been asked for
RemovalAsked == docker.rm # "no"

\* The build has ended with exit code 0
BuildSucceeded == docker.code = Some(0)

\* C13: when a rebuild is required and a matchstick image exists, its removal
\* is complete before the build begins, so that the container started after a
\* successful build runs from the newly built image, and that image is not
\* removed afterwards.
C13_RemovalCompletesBeforeBuild ==
    RemovalAsked =>
        /\ docker.build # "no" => docker.rm \in {"removed", "failed"}
        /\ (BuildSucceeded /\ docker.run \in {"running", "exited", "failed"}) =>
              /\ docker.run # "failed"
              /\ docker.container = Some("new")
        /\ BuildSucceeded => docker.image = "new"

====
